---------------------------- MODULE Spec2Model ----------------------------
(***************************************************************************)
(* A model of the yDrink period calculator (ydrink_periods.py), the       *)
(* metrics transformer (ydrink_transform_metrics.py) and the snapshot     *)
(* writer of the pull script (ydrink_pull_playwright.py).                 *)
(*                                                                         *)
(* Dates are proleptic Gregorian ordinals (date.toordinal()), a timedelta *)
(* of n days is the integer n.  Text is TLA+ strings, joined with \o.     *)
(***************************************************************************)
EXTENDS Integers, Sequences, FiniteSets, TLC

VARIABLES
    sat,        \* most_recent_saturday: <<>> before a call, <<d, result>> after
    now,        \* current_biweekly_period: <<>> or <<the datetime it resolved>>
    chain,      \* <<p, last(p), last(last(p)), ...>>, p = current_biweekly_period(now)
    raw_in,     \* compute_metrics: the raw fact table it is called on
    metrics_out, \* compute_metrics: <<>> before the call, <<its result>> after
    today,      \* the calendar date in America/Chicago (an ordinal)
    clock,      \* the wall clock, in ticks; a file's st_mtime is the tick it was written at
    raw_dir,    \* ydrink_exports/raw: the snapshot files, [name, mtime, content]
    pc,         \* where the transformer's main() stands
    args,       \* main(): --period-end and --mode
    raw_files,  \* main(): the selected snapshot paths, in order
    raw,        \* main(): the raw fact table load_raw_snapshots returned
    metrics,    \* main(): the metrics table
    exports_dir, \* ydrink_exports: the timestamped artifacts and the latest artifact
    error,      \* the exception that ended the run, if one did
    runs,       \* transformer runs started so far
    run_log     \* history: what each completed run was given, selected and produced

periodVars == <<sat, now, chain>>
metricsVars == <<raw_in, metrics_out>>
pipeVars == <<today, clock, raw_dir, pc, args, raw_files, raw, metrics,
              exports_dir, error, runs, run_log>>
vars == <<sat, now, chain, raw_in, metrics_out, today, clock, raw_dir, pc, args,
          raw_files, raw, metrics, exports_dir, error, runs, run_log>>

(***************************************************************************)
(* Bounds of the period model.                                             *)
(***************************************************************************)
FirstDay == 738947          \* date(2024, 3, 2).toordinal(), a Saturday
NumDays == 16               \* reference dates FirstDay .. FirstDay + NumDays - 1
MaxChain == 3               \* periods in a chain p, last(p), ...

Days == FirstDay .. (FirstDay + NumDays - 1)
Hours == 0 .. 23

(***************************************************************************)
(* Bounds of the pipeline model, and the pipeline before anything ran: an  *)
(* empty raw directory, no artifact, main() not started.                   *)
(***************************************************************************)
PipelineFirstDay == 738961  \* date(2024, 3, 16).toordinal(): the first day of the pipeline
MaxAdvances == 1            \* times the calendar moves on to the next period
MaxClock == 3               \* snapshot writes (wall clock ticks spent by the producer)
MaxRuns == 1                \* transformer runs

NoArgs == [period_end |-> "", mode |-> ""]
NoError == [kind |-> "", file |-> "", missing |-> {}]
NoExports == [timestamped |-> {}, latest |-> <<>>]

PipeStart ==
    /\ today = PipelineFirstDay
    /\ clock = 0
    /\ raw_dir = {}
    /\ pc = "idle"
    /\ args = NoArgs
    /\ raw_files = <<>>
    /\ raw = <<>>
    /\ metrics = <<>>
    /\ exports_dir = NoExports
    /\ error = NoError
    /\ runs = 0
    /\ run_log = <<>>

(***************************************************************************)
(* The calendar: what datetime.date does for the calls the code makes.     *)
(***************************************************************************)
\* date.weekday(): Monday = 0 ... Sunday = 6; ordinal 1 (0001-01-01) is a Monday.
weekday(d) == (d + 6) % 7

IsLeap(y) == y % 4 = 0 /\ (y % 100 # 0 \/ y % 400 = 0)

DaysInMonth(y, m) ==
    IF m = 2 THEN (IF IsLeap(y) THEN 29 ELSE 28)
    ELSE IF m \in {4, 6, 9, 11} THEN 30 ELSE 31

RECURSIVE DaysBeforeMonth(_, _)
DaysBeforeMonth(y, m) ==
    IF m = 1 THEN 0 ELSE DaysBeforeMonth(y, m - 1) + DaysInMonth(y, m - 1)

\* Days before January 1st of year y.
DaysBeforeYear(y) ==
    LET z == y - 1 IN z * 365 + z \div 4 - z \div 100 + z \div 400

\* The year holding ordinal n: the estimate n \div 366 + 1 is never too large,
\* and is stepped up to the year whose range holds n.
RECURSIVE YearFrom(_, _)
YearFrom(n, y) == IF n > DaysBeforeYear(y + 1) THEN YearFrom(n, y + 1) ELSE y

RECURSIVE MonthFrom(_, _, _)
MonthFrom(y, rest, m) ==
    IF rest > DaysBeforeMonth(y, m) + DaysInMonth(y, m)
    THEN MonthFrom(y, rest, m + 1) ELSE m

\* date.fromordinal(n) as (year, month, day).
Ord2Ymd(n) ==
    LET y == YearFrom(n, n \div 366 + 1)
        rest == n - DaysBeforeYear(y)
        m == MonthFrom(y, rest, 1)
    IN  [year |-> y, month |-> m, day |-> rest - DaysBeforeMonth(y, m)]

Pad2(n) == IF n < 10 THEN "0" \o ToString(n) ELSE ToString(n)

Pad4(n) ==
    IF n < 10 THEN "000" \o ToString(n)
    ELSE IF n < 100 THEN "00" \o ToString(n)
    ELSE IF n < 1000 THEN "0" \o ToString(n) ELSE ToString(n)

\* date.isoformat(): YYYY-MM-DD.
isoformat(d) ==
    LET c == Ord2Ymd(d) IN Pad4(c.year) \o "-" \o Pad2(c.month) \o "-" \o Pad2(c.day)

(***************************************************************************)
(* Time zones.  A datetime is its wall clock (day, hour) and its tzinfo:   *)
(* "naive" (none), "CT" (America/Chicago) or a fixed-offset zone.          *)
(***************************************************************************)
DstStartDay == 738955       \* 2024-03-10: America/Chicago goes from UTC-6 to UTC-5
DstStartLocalHour == 3      \* ... at 02:00 CST, which becomes 03:00 CDT
DstStartUtcHour == 8        \* ... which is 08:00 UTC

TzInfos == {"naive", "CT", "UTC", "Asia/Tokyo"}

DateTimes == [day : Days, hour : Hours, tz : TzInfos]

\* ZoneInfo("America/Chicago").utcoffset() of a wall clock time, in hours
\* (a wall clock time in the skipped hour keeps the offset before the change).
CTOffsetOfLocal(day, hour) ==
    IF day * 24 + hour < DstStartDay * 24 + DstStartLocalHour THEN -6 ELSE -5

\* The America/Chicago offset in force at an instant (hours since ordinal 0, UTC).
CTOffsetOfInstant(t) ==
    IF t < DstStartDay * 24 + DstStartUtcHour THEN -6 ELSE -5

\* datetime.utcoffset(), in hours, of an aware datetime.
utcoffset(dt) ==
    CASE dt.tz = "CT" -> CTOffsetOfLocal(dt.day, dt.hour)
      [] dt.tz = "UTC" -> 0
      [] dt.tz = "Asia/Tokyo" -> 9

\* The instant an aware datetime denotes, in hours since ordinal 0 at 00:00 UTC.
Instant(dt) == dt.day * 24 + dt.hour - utcoffset(dt)

\* The calendar date of an instant in America/Chicago.
ChicagoDate(t) == (t + CTOffsetOfInstant(t)) \div 24

\* datetime.date(): the date of the datetime's own wall clock.
date(dt) == dt.day

\* datetime.replace(tzinfo=CT): the same wall clock, with the zone attached.
replace_tzinfo(dt, tz) == [dt EXCEPT !.tz = tz]

(***************************************************************************)
(* ydrink_periods.py                                                       *)
(***************************************************************************)
SaturdayWeekday == 5
PeriodSpanDays == 13
PeriodStepDays == 14

BiWeeklyPeriod(start, end, label) == [start |-> start, end |-> end, label |-> label]

most_recent_saturday_NoModulo(d) == d - (weekday(d) - SaturdayWeekday)

most_recent_saturday(d) ==
    LET days_since_sat == (weekday(d) - SaturdayWeekday) % 7
    IN  d - days_since_sat

\* Lines 33-34: a naive `now` is taken to be America/Chicago wall clock time.
ResolveNow(n) == IF n.tz = "naive" THEN replace_tzinfo(n, "CT") ELSE n

current_biweekly_period_StartAsEnd(n) ==
    LET end == most_recent_saturday(date(n))
        start == end - PeriodSpanDays
    IN  BiWeeklyPeriod(start, end, isoformat(start) \o "_to_" \o isoformat(start))

\* Lines 36-39, for a resolved `now`.
current_biweekly_period(n) ==
    LET end == most_recent_saturday(date(n))
        start == end - PeriodSpanDays
        label == isoformat(start) \o "_to_" \o isoformat(end)
    IN  BiWeeklyPeriod(start, end, label)

last_biweekly_period_Overlap(current) ==
    LET end == current.end - PeriodSpanDays
        start == end - PeriodSpanDays
        label == isoformat(start) \o "_to_" \o isoformat(end)
    IN  BiWeeklyPeriod(start, end, label)

last_biweekly_period(current) ==
    LET end == current.end - PeriodStepDays
        start == end - PeriodSpanDays
        label == isoformat(start) \o "_to_" \o isoformat(end)
    IN  BiWeeklyPeriod(start, end, label)

(***************************************************************************)
(* The period calculator as a state machine: each call is an action.  The  *)
(* functions are pure, so a behaviour makes each entry call once and then  *)
(* walks the chain of previous periods.                                    *)
(***************************************************************************)
PeriodInit ==
    /\ sat = <<>>
    /\ now = <<>>
    /\ chain = <<>>
    /\ raw_in = <<>>
    /\ metrics_out = <<>>
    /\ PipeStart

MostRecentSaturday ==
    \E d \in Days :
        /\ sat = <<>>
        /\ sat' = <<d, most_recent_saturday(d)>>
        /\ UNCHANGED <<now, chain, metricsVars, pipeVars>>

\* current_biweekly_period(now) with `now` given, naive or aware.
CurrentBiweeklyPeriod ==
    \E n \in DateTimes :
        /\ chain = <<>>
        /\ now' = <<ResolveNow(n)>>
        /\ chain' = <<current_biweekly_period(ResolveNow(n))>>
        /\ UNCHANGED <<sat, metricsVars, pipeVars>>

\* current_biweekly_period() with now = None: datetime.now(CT), whatever the
\* America/Chicago wall clock shows.
CurrentBiweeklyPeriodDefault ==
    \E n \in {x \in DateTimes : x.tz = "CT"} :
        /\ chain = <<>>
        /\ now' = <<n>>
        /\ chain' = <<current_biweekly_period(n)>>
        /\ UNCHANGED <<sat, metricsVars, pipeVars>>

LastBiweeklyPeriod ==
    /\ chain # <<>>
    /\ Len(chain) < MaxChain
    /\ chain' = Append(chain, last_biweekly_period(chain[Len(chain)]))
    /\ UNCHANGED <<sat, now, metricsVars, pipeVars>>

PeriodNext ==
    \/ MostRecentSaturday
    \/ CurrentBiweeklyPeriod
    \/ CurrentBiweeklyPeriodDefault
    \/ LastBiweeklyPeriod

SpecPeriod == PeriodInit /\ [][PeriodNext]_vars


(***************************************************************************)
(* Numbers.  A float64 cell is modelled as an exact fraction num/den with  *)
(* den > 0 in lowest terms; den = 0 is the missing-value marker (NaN,      *)
(* pd.NA).  Case counts are finite, and rounding is not modelled.          *)
(***************************************************************************)
Abs(x) == IF x < 0 THEN -x ELSE x

RECURSIVE Gcd(_, _)
Gcd(a, b) == IF b = 0 THEN a ELSE Gcd(b, a % b)

Frac(n, d) ==
    LET g == Gcd(Abs(n), Abs(d))
        sgn == IF d < 0 THEN -1 ELSE 1
    IN  [num |-> sgn * (n \div g), den |-> sgn * (d \div g)]

Num(n) == [num |-> n, den |-> 1]
NA == [num |-> 0, den |-> 0]
isna(x) == x.den = 0

\* Series arithmetic, element by element: a missing operand gives a missing result.
FAdd(a, b) == IF isna(a) \/ isna(b) THEN NA
              ELSE Frac(a.num * b.den + b.num * a.den, a.den * b.den)
FSub(a, b) == IF isna(a) \/ isna(b) THEN NA
              ELSE Frac(a.num * b.den - b.num * a.den, a.den * b.den)
FMul(a, b) == IF isna(a) \/ isna(b) THEN NA
              ELSE Frac(a.num * b.num, a.den * b.den)
\* A zero denominator never reaches the division: safe_div masks it first.
FDiv(a, b) == IF isna(a) \/ isna(b) \/ b.num = 0 THEN NA
              ELSE Frac(a.num * b.den, a.den * b.num)
FLess(a, b) == a.num * b.den < b.num * a.den

\* Series.replace({0: pd.NA}), Series.fillna(v), Series.clip(lower=), .clip(upper=).
replace_zero_NA(x) == IF ~isna(x) /\ x.num = 0 THEN NA ELSE x
fillna(x, v) == IF isna(x) THEN v ELSE x
clip_lower(x, lo) == IF ~isna(x) /\ FLess(x, lo) THEN lo ELSE x
clip_upper(x, hi) == IF ~isna(x) /\ FLess(hi, x) THEN hi ELSE x

(***************************************************************************)
(* ydrink_transform_metrics.py: safe_div and compute_metrics.              *)
(* A table is a sequence of rows, a row a record of its columns.           *)
(***************************************************************************)
safe_div_NoFill(numer, denom) == FDiv(numer, replace_zero_NA(denom))

safe_div(numer, denom) ==
    LET denom2 == replace_zero_NA(denom)
        out == FDiv(numer, denom2)
    IN  fillna(out, Num(0))

\* An account_id cell as pandas holds it: an integer, a float (an integer column
\* with blanks), a string, or NaN (a blank).  astype(str) is str() of the cell.
\* A string cell remembers whether its text is a number (pd.to_numeric reads it).
IntCell(i) == [kind |-> "int", int |-> i, str |-> "", numeric |-> TRUE]
FloatCell(i) == [kind |-> "float", int |-> i, str |-> "", numeric |-> TRUE]
StrCell(t) == [kind |-> "str", int |-> 0, str |-> t, numeric |-> FALSE]
NumStrCell(i) == [kind |-> "str", int |-> i, str |-> ToString(i), numeric |-> TRUE]
NaNCell == [kind |-> "nan", int |-> 0, str |-> "", numeric |-> FALSE]

astype_str(c) ==
    CASE c.kind = "int" -> ToString(c.int)
      [] c.kind = "float" -> ToString(c.int) \o ".0"
      [] c.kind = "str" -> c.str
      [] c.kind = "nan" -> "nan"

\* Lines 183-187.
unique_key(r) == astype_str(r.account_id) \o "|" \o r.brand \o "|" \o r.period_end

true_up_cases_ClipUpper(true_difference_cases) == clip_upper(true_difference_cases, Num(0))

\* Line 170.
true_up_cases(true_difference_cases) == clip_lower(true_difference_cases, Num(0))

\* Line 171.
true_down_cases(true_difference_cases) == clip_upper(true_difference_cases, Num(0))

expected_cases_if_maintained_share_CurrentShare(r, share_of_category, share_of_category_lp) ==
    FMul(r.category_cases, share_of_category)

\* Lines 155-157.
expected_cases_if_maintained_share(r, share_of_category, share_of_category_lp) ==
    FMul(r.category_cases, share_of_category_lp)

\* Lines 136-205 for one row: every assignment df[c] = ... sets (or replaces)
\* column c and keeps the row's other columns.
ComputeRow(r) ==
    LET share_of_category == safe_div(r.brand_cases, r.category_cases)
        share_of_category_lp == safe_div(r.brand_cases_lp, r.category_cases_lp)
        expected == expected_cases_if_maintained_share(
                        r, share_of_category, share_of_category_lp)
        share_gain_cases == FSub(r.brand_cases, expected)
        true_difference_cases == share_gain_cases
    IN  [share_of_category |-> share_of_category,
         share_of_category_lp |-> share_of_category_lp,
         delta_brand_cases |-> FSub(r.brand_cases, r.brand_cases_lp),
         delta_category_cases |-> FSub(r.category_cases, r.category_cases_lp),
         delta_share |-> FSub(share_of_category, share_of_category_lp),
         expected_cases_if_maintained_share |-> expected,
         share_gain_cases |-> share_gain_cases,
         true_difference_cases |-> true_difference_cases,
         true_up_cases |-> true_up_cases(true_difference_cases),
         true_down_cases |-> true_down_cases(true_difference_cases),
         category_effect_cases |-> FSub(expected, r.brand_cases_lp),
         unique_key |-> unique_key(r),
         is_current_period |-> TRUE,
         is_last_period |-> FALSE,
         baseline_brand_cases |-> NA,
         baseline_category_cases |-> NA,
         expected_share |-> NA,
         expected_cases |-> NA,
         gap_cases |-> NA,
         gap_cases_positive |-> NA] @@ r

\* A per-row map: no row is dropped, added or reordered.
compute_metrics(df) == [i \in 1 .. Len(df) |-> ComputeRow(df[i])]

(***************************************************************************)
(* compute_metrics as a state machine: Init draws the raw fact table, the  *)
(* action applies the function.                                            *)
(***************************************************************************)
MaxCases == 3               \* case counts of one-row tables: -1 .. MaxCases
MaxRows == 2                \* rows of a raw fact table

CaseCounts == {Num(k) : k \in -1 .. MaxCases}

AccountIds == {IntCell(7), NumStrCell(7), StrCell("7|a")}
Brands == {"b", "a|b"}
PeriodEnds == {"2024-03-02", "2024-03-16"}

RawRow(account_id, brand, period_end, bc, cc, bclp, cclp) ==
    [account_id |-> account_id, brand |-> brand, period_end |-> period_end,
     brand_cases |-> bc, category_cases |-> cc,
     brand_cases_lp |-> bclp, category_cases_lp |-> cclp]

\* Scenario B of the specification.
ScenarioB == RawRow(IntCell(7), "b", "2024-03-16", Num(120), Num(400), Num(100), Num(500))

\* One-row tables range over every combination of case counts; tables of several
\* rows range over every combination of identities, with two sets of counts.
WideRows ==
    {RawRow(a, b, e, bc, cc, bclp, cclp) :
        a \in {IntCell(7)}, b \in {"b"}, e \in {"2024-03-16"},
        bc \in CaseCounts, cc \in CaseCounts, bclp \in CaseCounts, cclp \in CaseCounts}
    \cup {ScenarioB}

IdentityRows ==
    {RawRow(a, b, e, q[1], q[2], q[3], q[4]) :
        a \in AccountIds, b \in Brands, e \in PeriodEnds,
        q \in {<<Num(0), Num(0), Num(0), Num(0)>>, <<Num(3), Num(2), Num(1), Num(2)>>}}

RawTables ==
    UNION {[1 .. n -> IF n = 1 THEN WideRows ELSE IdentityRows] : n \in 1 .. MaxRows}

MetricsInit ==
    /\ raw_in \in RawTables
    /\ metrics_out = <<>>
    /\ sat = <<>>
    /\ now = <<>>
    /\ chain = <<>>
    /\ PipeStart

ComputeMetrics ==
    /\ metrics_out = <<>>
    /\ metrics_out' = <<compute_metrics(raw_in)>>
    /\ UNCHANGED <<raw_in, periodVars, pipeVars>>

MetricsNext == ComputeMetrics

SpecMetrics == MetricsInit /\ [][MetricsNext]_vars

(***************************************************************************)
(* File names.  A name is kept as the text between its separators: a       *)
(* sequence of segments (the text between "__"), each a sequence of parts  *)
(* (the text between "_to_").  The name                                    *)
(*   establishmentdata__socorro__2024-03-03_to_2024-03-16__run_X.csv       *)
(* is <<<<"establishmentdata">>, <<"socorro">>,                            *)
(*      <<"2024-03-03", "2024-03-16">>, <<"run_X">>>> (the suffix ".csv"   *)
(* is implied: the model holds no other files).                            *)
(***************************************************************************)
RECURSIVE JoinWith(_, _)
JoinWith(texts, sep) ==
    IF Len(texts) = 0 THEN ""
    ELSE IF Len(texts) = 1 THEN texts[1]
    ELSE texts[1] \o sep \o JoinWith(Tail(texts), sep)

\* The text of a segment, and p.stem / p.name of a path.
SegmentText(seg) == JoinWith(seg, "_to_")
PathStem(name) == JoinWith([i \in 1 .. Len(name) |-> SegmentText(name[i])], "__")
PathName(name) == PathStem(name) \o ".csv"

\* p.stem.split("__") and period_label.split("_to_").
split_segments(name) == [i \in 1 .. Len(name) |-> SegmentText(name[i])]
split_to(seg) == seg

\* datetime.strftime("%Y%m%d_%H%M%S") of the sec-th second after noon of a day.
strftime(day, sec) ==
    LET c == Ord2Ymd(day)
    IN  Pad4(c.year) \o Pad2(c.month) \o Pad2(c.day) \o "_1200" \o Pad2(sec)

PipelineDays == {PipelineFirstDay + PeriodStepDays * k : k \in 0 .. MaxAdvances}
TicksPerSecond == 2
Seconds == 0 .. ((MaxClock + MaxRuns) \div TicksPerSecond)

RunPart(day, sec) == "run_" \o strftime(day, sec)
RunParts == {RunPart(d, x) : d \in PipelineDays, x \in Seconds}

\* Every part a name of the model is made of, in ascending order as text:
\* digits sort before letters, dates and run stamps by their time.
RECURSIVE SortedInts(_)
SortedInts(S) ==
    IF S = {} THEN <<>>
    ELSE LET m == CHOOSE x \in S : \A y \in S : x <= y
         IN  <<m>> \o SortedInts(S \ {m})

DateOrdinals ==
    SortedInts(UNION {{current_biweekly_period([day |-> d, hour |-> 12, tz |-> "CT"]).start,
                       current_biweekly_period([day |-> d, hour |-> 12, tz |-> "CT"]).end}
                      : d \in PipelineDays})

RunStamps ==
    LET days == SortedInts(PipelineDays)
        n == Cardinality(Seconds)
    IN  [k \in 1 .. (Len(days) * n) |->
            RunPart(days[(k - 1) \div n + 1], (k - 1) % n)]

PartOrder ==
    [i \in 1 .. Len(DateOrdinals) |-> isoformat(DateOrdinals[i])]
    \o <<"casa_lujo", "establishmentdata", "jalisco">>
    \o RunStamps
    \o <<"socorro", "soledad">>

PartRank(a) == CHOOSE k \in 1 .. Len(PartOrder) : PartOrder[k] = a

\* The parts of a name, each followed by the separator that follows it in the
\* text: "_to_" (rank 2) sorts after "__" (rank 1), the end of the name is 0.
RECURSIVE FlattenName(_)
FlattenName(name) ==
    IF Len(name) = 0 THEN <<>>
    ELSE LET seg == name[1]
             last == IF Len(name) = 1 THEN 0 ELSE 1
         IN  [k \in 1 .. (2 * Len(seg)) |->
                 IF k % 2 = 1 THEN PartRank(seg[(k + 1) \div 2]) + 2
                 ELSE IF k = 2 * Len(seg) THEN last ELSE 2]
             \o FlattenName(Tail(name))

RECURSIVE LexLess(_, _)
LexLess(a, b) ==
    IF Len(b) = 0 THEN FALSE
    ELSE IF Len(a) = 0 THEN TRUE
    ELSE IF a[1] # b[1] THEN a[1] < b[1]
    ELSE LexLess(Tail(a), Tail(b))

\* Path ordering, as sorted() compares paths.
PathLess(a, b) == LexLess(FlattenName(a), FlattenName(b))

RECURSIVE sorted(_)
sorted(S) ==
    IF S = {} THEN <<>>
    ELSE LET m == CHOOSE x \in S : \A y \in S \ {x} : PathLess(x, y)
         IN  <<m>> \o sorted(S \ {m})

(***************************************************************************)
(* CSV files.  A cell of a CSV file is blank, the text of an integer, or   *)
(* other text.  A file is empty (no header) or a header with rows.         *)
(***************************************************************************)
Blank == [kind |-> "blank", int |-> 0, str |-> ""]
IntText(i) == [kind |-> "int", int |-> i, str |-> ""]
Text(t) == [kind |-> "text", int |-> 0, str |-> t]

EmptyFile == [empty |-> TRUE, header |-> {}, rows |-> <<>>]

(***************************************************************************)
(* ydrink_pull_playwright.py: the snapshot writer.                         *)
(***************************************************************************)
\* BRAND_FILTERS' keys (lines 92-129); the model pulls two of the four.
BrandNames == {"Socorro", "Casa Lujo"}

\* _safe_slug (lines 147-150) on the brand names.
_safe_slug(brand) ==
    CASE brand = "Socorro" -> "socorro"
      [] brand = "Soledad" -> "soledad"
      [] brand = "Casa Lujo" -> "casa_lujo"
      [] brand = "Jalisco" -> "jalisco"

\* get_current_period() (ydrink_periods.py lines 51-57) on day `day`, and
\* _period_from_locked_logic (lines 157-173): the label is start_s, "_to_", end_s.
_period_from_locked_logic(day) ==
    LET p == current_biweekly_period([day |-> day, hour |-> 12, tz |-> "CT"])
        start_s == isoformat(p.start)
        end_s == isoformat(p.end)
    IN  [start_date |-> start_s, end_date |-> end_s, period_label |-> <<start_s, end_s>>]

\* Line 319.
SnapshotName(brand_slug, period, ts) ==
    <<<<"establishmentdata">>, <<brand_slug>>, period.period_label, <<"run_" \o ts>>>>

\* The rows the export gave (dicts; the model's exports hold integers, text and
\* None).  csv.DictWriter writes the union of the keys as the header, and a blank
\* for a key a row lacks or for None.
CsvOf(rows) ==
    LET fieldnames == UNION {DOMAIN rows[i] : i \in 1 .. Len(rows)}
    IN  [empty |-> FALSE,
         header |-> fieldnames,
         rows |-> [i \in 1 .. Len(rows) |->
                     [c \in fieldnames |->
                         IF c \in DOMAIN rows[i] THEN rows[i][c] ELSE Blank]]]

\* Lines 312-333: the file written, at the current date and clock.
_write_csv_snapshot(brand, period, rows, day, tick) ==
    LET ts == strftime(day, tick \div TicksPerSecond)
        brand_slug == _safe_slug(brand)
    IN  [name |-> SnapshotName(brand_slug, period, ts),
         mtime |-> tick,
         content |-> IF rows = <<>> THEN EmptyFile ELSE CsvOf(rows)]

\* Writing a path replaces the file of that name.
WriteFile(dir, f) == {g \in dir : g.name # f.name} \cup {f}

(***************************************************************************)
(* ydrink_transform_metrics.py: load_raw_snapshots.                        *)
(***************************************************************************)
\* Lines 56-64: the export's column names become the transformer's.
rename_map(c) ==
    CASE c = "cases" -> "brand_cases"
      [] c = "cases_lp" -> "brand_cases_lp"
      [] c = "ms_category" -> "category_cases"
      [] c = "ms_category_lp" -> "category_cases_lp"
      [] c = "establishment_id" -> "account_id"
      [] c = "est_id" -> "account_id"
      [] OTHER -> c

\* pd.read_csv infers each column's type from all of its cells: integers give an
\* int64 column, integers and blanks a float64 column with NaN, any other text an
\* object column of strings with NaN for the blanks.
ColumnKind(content, c) ==
    LET kinds == {content.rows[i][c].kind : i \in 1 .. Len(content.rows)}
    IN  IF kinds \subseteq {"int"} THEN "int"
        ELSE IF kinds \subseteq {"int", "blank"} THEN "float"
        ELSE "object"

read_csv_cell(column_kind, cell) ==
    CASE cell.kind = "blank" -> NaNCell
      [] cell.kind = "text" -> StrCell(cell.str)
      [] cell.kind = "int" /\ column_kind = "int" -> IntCell(cell.int)
      [] cell.kind = "int" /\ column_kind = "float" -> FloatCell(cell.int)
      [] cell.kind = "int" /\ column_kind = "object" -> NumStrCell(cell.int)

\* The cell of row i in the column that rename_map names `target`.
RenamedCell(content, i, target) ==
    LET c == CHOOSE x \in content.header : rename_map(x) = target
    IN  read_csv_cell(ColumnKind(content, c), content.rows[i][c])

required_metric_cols == {"brand_cases", "category_cases", "brand_cases_lp", "category_cases_lp"}

PyNone == "None"

\* An exception: its kind, the file its message names ("" when it names none)
\* and the columns its message lists.
Raise(kind, file) == [kind |-> kind, file |-> file, missing |-> {}]
RaiseMissing_NoColumns(kind, file, missing) == Raise(kind, file)

RaiseMissing(kind, file, missing) == [kind |-> kind, file |-> file, missing |-> missing]

\* Lines 53-107, one turn of the loop: the exception raised, or the frame appended.
\* The frame keeps the columns the transformer reads.
LoadFrame(f) ==
    LET p == f.name
        content == f.content
        columns == {rename_map(c) : c \in content.header}
        parts == split_segments(p)
        well_named == Len(parts) >= 4 /\ p[1][1] = "establishmentdata"
        brand == parts[2]
        period_label == parts[3]
        period_end == IF Len(split_to(p[3])) >= 2 THEN split_to(p[3])[2] ELSE PyNone
    IN  IF content.empty
        THEN [error |-> Raise("EmptyDataError", PathName(p)), rows |-> <<>>]
        ELSE IF "account_id" \notin columns
        THEN [error |-> RaiseMissing("ValueError: missing an account identifier column",
                                     PathName(p), {"account_id"}),
              rows |-> <<>>]
        ELSE IF ~well_named
        THEN [error |-> Raise("ValueError: unexpected raw snapshot filename format", PathName(p)),
              rows |-> <<>>]
        ELSE IF ~(required_metric_cols \subseteq columns)
        THEN [error |-> RaiseMissing("ValueError: missing required metric columns",
                                     PathName(p), required_metric_cols \ columns),
              rows |-> <<>>]
        ELSE [error |-> NoError,
              rows |-> [i \in 1 .. Len(content.rows) |->
                  [account_id |-> RenamedCell(content, i, "account_id"),
                   brand |-> brand,
                   period_label |-> period_label,
                   period_end |-> period_end,
                   brand_cases |-> RenamedCell(content, i, "brand_cases"),
                   category_cases |-> RenamedCell(content, i, "category_cases"),
                   brand_cases_lp |-> RenamedCell(content, i, "brand_cases_lp"),
                   category_cases_lp |-> RenamedCell(content, i, "category_cases_lp")]]]

FileAt(dir, name) == CHOOSE f \in dir : f.name = name

\* The loop of lines 52-107: the first exception ends it.
RECURSIVE LoadFrames(_, _, _)
LoadFrames(paths, dir, rows) ==
    IF paths = <<>> THEN [error |-> NoError, rows |-> rows]
    ELSE LET one == LoadFrame(FileAt(dir, Head(paths)))
         IN  IF one.error # NoError THEN one
             ELSE LoadFrames(Tail(paths), dir, rows \o one.rows)

\* pd.concat (line 109) gives account_id one dtype: with an object column the cells
\* stay as they are; without one, a float64 column turns the integers into floats.
concat_account_id(rows, c) ==
    LET kinds == {rows[i].account_id.kind : i \in 1 .. Len(rows)}
    IN  IF c.kind = "int" /\ "str" \notin kinds /\ kinds # {"int"}
        THEN FloatCell(c.int) ELSE c

\* pd.to_numeric(errors="coerce") (line 113): a number, or NaN for what is none.
to_numeric(c) == IF c.numeric THEN Num(c.int) ELSE NA

to_numeric_fillna_KeepNaN(c) == to_numeric(c)

\* Line 113: pd.to_numeric(raw[c], errors="coerce").fillna(0.0).
to_numeric_fillna(c) == fillna(to_numeric(c), Num(0))

\* Lines 47-124.
load_raw_snapshots(paths, dir) ==
    IF paths = <<>> THEN [error |-> Raise("ValueError: no raw snapshot paths provided", ""),
                          rows |-> <<>>]
    ELSE LET frames == LoadFrames(paths, dir, <<>>)
             concat == frames.rows
             coerced == [i \in 1 .. Len(concat) |->
                 [concat[i] EXCEPT
                     !.account_id = concat_account_id(concat, @),
                     !.brand_cases = to_numeric_fillna(@),
                     !.category_cases = to_numeric_fillna(@),
                     !.brand_cases_lp = to_numeric_fillna(@),
                     !.category_cases_lp = to_numeric_fillna(@)]]
         IN  IF frames.error # NoError THEN frames
             ELSE IF \E i \in 1 .. Len(coerced) : coerced[i].period_end = PyNone
             THEN [error |-> Raise("ValueError: rows are missing period_end", ""),
                   rows |-> <<>>]
             ELSE [error |-> NoError, rows |-> coerced]

(***************************************************************************)
(* ydrink_transform_metrics.py: main and write_outputs.                    *)
(***************************************************************************)
Modes == {"latest-per-brand", "all"}

\* Line 245: raw_dir.glob("establishmentdata__*__*_to_<period_end>__run_*.csv").
\* The name starts with "establishmentdata__"; after a further "__" comes a
\* segment ending in "_to_<period_end>", and the next segment starts with "run_".
GlobMatches(name, period_end) ==
    /\ Len(name) >= 4
    /\ name[1] = <<"establishmentdata">>
    /\ \E i \in 3 .. (Len(name) - 1) :
          /\ Len(name[i]) >= 2
          /\ name[i][Len(name[i])] = period_end
          /\ name[i + 1][1] \in RunParts

glob_AnyPeriod(dir, period_end) == {f.name : f \in dir}

glob(dir, period_end) == {f.name : f \in {g \in dir : GlobMatches(g.name, period_end)}}

st_mtime(dir, name) == FileAt(dir, name).mtime

IsNewer_Older(mtime, latest_mtime) == mtime < latest_mtime

\* Line 260: p.stat().st_mtime > latest_by_brand[brand].stat().st_mtime.
IsNewer(mtime, latest_mtime) == mtime > latest_mtime

\* Lines 254-261: the dict brand -> path after the loop over the candidates.
RECURSIVE LatestByBrand(_, _, _)
LatestByBrand(candidates, dir, latest_by_brand) ==
    IF candidates = <<>> THEN latest_by_brand
    ELSE LET p == Head(candidates)
             parts == split_segments(p)
             brand == parts[2]
             next ==
                 IF Len(parts) < 4 THEN latest_by_brand
                 ELSE IF brand \notin DOMAIN latest_by_brand
                         \/ IsNewer(st_mtime(dir, p), st_mtime(dir, latest_by_brand[brand]))
                 THEN (brand :> p) @@ latest_by_brand
                 ELSE latest_by_brand
         IN  LatestByBrand(Tail(candidates), dir, next)

\* Lines 251-262.
SelectRawFiles(candidates, dir, mode) ==
    IF mode = "all" THEN candidates
    ELSE LET latest_by_brand == LatestByBrand(candidates, dir, <<>>)
         IN  sorted({latest_by_brand[b] : b \in DOMAIN latest_by_brand})

WithRunTimestamp_InKey(table, run_ts) ==
    [i \in 1 .. Len(table) |->
        [run_timestamp |-> run_ts,
         unique_key |-> table[i].unique_key \o "|" \o ToString(run_ts)] @@ table[i]]

\* Lines 272-274: main() adds run_timestamp, the time of the run, when the
\* table has no such column (the frames above have none).
WithRunTimestamp(table, run_ts) ==
    [i \in 1 .. Len(table) |-> [run_timestamp |-> run_ts] @@ table[i]]

required_out_cols == {"unique_key", "brand", "period_end", "true_difference_cases"}

Columns(table) == IF table = <<>> THEN {} ELSE DOMAIN table[1]

missing_out_All(table) == required_out_cols

\* Line 278: the required output columns the table lacks.
missing_out(table) == required_out_cols \ Columns(table)

(***************************************************************************)
(* The pipeline as a state machine: the producer writes snapshots into the *)
(* raw directory as the days pass, and the transformer's main() runs in    *)
(* steps (select, load, compute and check, write, write) beside it.        *)
(***************************************************************************)
\* What an export can hold: a row is a dict from the export's headers to cells.
ExportRow(id, cases, cases_lp, ms_category, ms_category_lp) ==
    [establishment_id |-> id, cases |-> IntText(cases), cases_lp |-> IntText(cases_lp),
     ms_category |-> IntText(ms_category), ms_category_lp |-> IntText(ms_category_lp)]

Exports ==
    { <<>>,                                                \* no rows at all
      <<ExportRow(IntText(7), 120, 100, 400, 500)>>,
      <<ExportRow(IntText(7), 3, 2, 1, 0), ExportRow(IntText(8), 0, 1, 2, 4)>>,
      <<ExportRow(IntText(7), 1, 1, 2, 2), ExportRow(IntText(7), 2, 1, 2, 2)>>,
      <<[est_id |-> IntText(7), cases |-> IntText(1), ms_category |-> IntText(2),
         ms_category_lp |-> IntText(2)]>> }               \* an export without cases_lp

\* The --period-end values tried: the period ends of the pipeline's days.
TargetPeriodEnds == {_period_from_locked_logic(d).end_date : d \in PipelineDays}

PipeInit ==
    /\ PipeStart
    /\ sat = <<>>
    /\ now = <<>>
    /\ chain = <<>>
    /\ raw_in = <<>>
    /\ metrics_out = <<>>

\* The calendar moves on by one period.
AdvanceDay ==
    /\ today < PipelineFirstDay + PeriodStepDays * MaxAdvances
    /\ today' = today + PeriodStepDays
    /\ UNCHANGED <<clock, raw_dir, pc, args, raw_files, raw, metrics, exports_dir,
                   error, runs, run_log, periodVars, metricsVars>>

\* The producer's main() (lines 723, 772): one snapshot of a run begun today.
WriteCsvSnapshot ==
    \E brand \in BrandNames, rows \in Exports :
        /\ clock - runs < MaxClock
        /\ raw_dir' = WriteFile(raw_dir,
               _write_csv_snapshot(brand, _period_from_locked_logic(today), rows,
                                   today, clock))
        /\ clock' = clock + 1
        /\ UNCHANGED <<today, pc, args, raw_files, raw, metrics, exports_dir,
                       error, runs, run_log, periodVars, metricsVars>>

\* main(), lines 239-262: a new run parses its arguments, globs and selects.
Main_Select(max_runs) ==
    \E period_end \in TargetPeriodEnds, mode \in Modes :
        LET candidates == sorted(glob(raw_dir, period_end)) IN
        /\ pc \in {"idle", "done", "failed"}
        /\ runs < max_runs
        /\ runs' = runs + 1
        /\ clock' = clock + 1
        /\ args' = [period_end |-> period_end, mode |-> mode]
        /\ raw' = <<>>
        /\ metrics' = <<>>
        /\ IF candidates = <<>>
           THEN /\ raw_files' = <<>>
                /\ error' = Raise("FileNotFoundError", "")
                /\ pc' = "failed"
           ELSE /\ raw_files' = SelectRawFiles(candidates, raw_dir, mode)
                /\ error' = NoError
                /\ pc' = "selected"
        /\ UNCHANGED <<today, raw_dir, exports_dir, run_log, periodVars, metricsVars>>

MainSelect == Main_Select(MaxRuns)

\* main(), line 269.
MainLoad ==
    LET loaded == load_raw_snapshots(raw_files, raw_dir) IN
    /\ pc = "selected"
    /\ IF loaded.error # NoError
       THEN /\ raw' = <<>>
            /\ error' = loaded.error
            /\ pc' = "failed"
       ELSE /\ raw' = loaded.rows
            /\ error' = NoError
            /\ pc' = "loaded"
    /\ UNCHANGED <<today, clock, raw_dir, args, raw_files, metrics, exports_dir,
                   runs, run_log, periodVars, metricsVars>>

\* main(), lines 270-280: the metrics, their run_timestamp, the output contract.
MainCompute ==
    LET computed == WithRunTimestamp(compute_metrics(raw), clock) IN
    /\ pc = "loaded"
    /\ metrics' = computed
    /\ IF missing_out(computed) = {}
       THEN error' = NoError /\ pc' = "checked"
       ELSE error' = Raise("RuntimeError: metrics output missing required columns", "")
            /\ pc' = "failed"
    /\ UNCHANGED <<today, clock, raw_dir, args, raw_files, raw, exports_dir,
                   runs, run_log, periodVars, metricsVars>>

MaxRunTimestamp(table) ==
    CHOOSE t \in {table[i].run_timestamp : i \in 1 .. Len(table)} :
        \A i \in 1 .. Len(table) : table[i].run_timestamp <= t

\* write_outputs, lines 212-214: the timestamped artifact.
WriteOutputsTimestamped ==
    LET run_ts == ToString(MaxRunTimestamp(metrics))
        out_path == "metrics_truth_" \o args.period_end \o "_" \o run_ts \o ".csv"
    IN
    /\ pc = "checked"
    /\ exports_dir' = [exports_dir EXCEPT !.timestamped =
           {a \in @ : a.path # out_path} \cup {[path |-> out_path, table |-> metrics]}]
    /\ pc' = "wrote_timestamped"
    /\ UNCHANGED <<today, clock, raw_dir, args, raw_files, raw, metrics, error,
                   runs, run_log, periodVars, metricsVars>>

\* write_outputs, lines 216-217: to_csv opens metrics_truth_latest.csv for
\* writing, which truncates it; the rows are not in the file until written out.
WriteOutputsLatestOpen ==
    /\ pc = "wrote_timestamped"
    /\ exports_dir' = [exports_dir EXCEPT !.latest = << <<>> >>]
    /\ pc' = "writing_latest"
    /\ UNCHANGED <<today, clock, raw_dir, args, raw_files, raw, metrics, error,
                   runs, run_log, periodVars, metricsVars>>

WriteOutputsLatest_NotWritten ==
    /\ pc = "writing_latest"
    /\ pc' = "done"
    /\ run_log' = Append(run_log,
           [args |-> args, raw_files |-> raw_files, metrics |-> metrics])
    /\ UNCHANGED <<today, clock, raw_dir, args, raw_files, raw, metrics, exports_dir,
                   error, runs, periodVars, metricsVars>>

\* write_outputs, lines 217-219: the rows are written, the file closed, the
\* run returns.
WriteOutputsLatest ==
    /\ pc = "writing_latest"
    /\ exports_dir' = [exports_dir EXCEPT !.latest = <<metrics>>]
    /\ pc' = "done"
    /\ run_log' = Append(run_log,
           [args |-> args, raw_files |-> raw_files, metrics |-> metrics])
    /\ UNCHANGED <<today, clock, raw_dir, args, raw_files, raw, metrics, error,
                   runs, periodVars, metricsVars>>

Next ==
    \/ AdvanceDay
    \/ WriteCsvSnapshot
    \/ MainSelect
    \/ MainLoad
    \/ MainCompute
    \/ WriteOutputsTimestamped
    \/ WriteOutputsLatestOpen
    \/ WriteOutputsLatest

Spec == PipeInit /\ [][Next]_vars

(***************************************************************************)
(* Runs of the transformer over a raw directory as it may be found: the    *)
(* snapshots the producer wrote, whatever the export held, and snapshots   *)
(* renamed or dropped in by hand.  main() runs, and runs again, while the  *)
(* directory stays as it is.                                               *)
(***************************************************************************)
MaxFiles == 2               \* files in the raw directory
MaxReruns == 2              \* transformer runs over it

\* Exports with cells the export may hold besides whole numbers: no account
\* number on a row, text where a count belongs, no account column at all.
OddExports ==
    { <<ExportRow(Blank, 5, 4, 10, 8)>>,
      <<ExportRow(IntText(7), 5, 4, 10, 8),
        [ExportRow(IntText(8), 0, 6, 0, 9) EXCEPT !.cases = Text("n/a"),
                                                  !.ms_category = Blank]>>,
      <<[cases |-> IntText(1), cases_lp |-> IntText(1), ms_category |-> IntText(2),
         ms_category_lp |-> IntText(2)]>> }

\* A name whose period segment is the end date alone.
NameWithoutSeparator(brand_slug, period, ts) ==
    <<<<"establishmentdata">>, <<brand_slug>>, <<period.end_date>>, <<"run_" \o ts>>>>

\* A name with a segment between the brand and the period label.
NameWithExtraSegment(brand_slug, period, ts) ==
    <<<<"establishmentdata">>, <<brand_slug>>, <<period.end_date>>,
      period.period_label, <<"run_" \o ts>>>>

\* A name whose period label runs over two periods: start, end, next end.
NameWithTwoSeparators(brand_slug, period, next_period, ts) ==
    <<<<"establishmentdata">>, <<brand_slug>>,
      <<period.start_date, period.end_date, next_period.end_date>>, <<"run_" \o ts>>>>

\* A file the producer wrote, under another name.
Renamed(f, name) == [f EXCEPT !.name = name]

FirstPeriod == _period_from_locked_logic(PipelineFirstDay)

RunSnapshots ==
    LET written(brand, rows, tick) ==
            _write_csv_snapshot(brand, FirstPeriod, rows, PipelineFirstDay, tick)
        good == written("Casa Lujo", <<ExportRow(IntText(9), 6, 3, 12, 12)>>, 1)
        ts == strftime(PipelineFirstDay, 0)
    IN  {written("Socorro", rows, 0) : rows \in Exports \cup OddExports}
        \cup {written("Socorro", rows, TicksPerSecond) : rows \in Exports}
        \cup {written("Casa Lujo", rows, 1) : rows \in Exports}
        \cup {Renamed(good, NameWithoutSeparator("casa_lujo", FirstPeriod, ts)),
              Renamed(good, NameWithExtraSegment("casa_lujo", FirstPeriod, ts)),
              Renamed(good, NameWithTwoSeparators("casa_lujo", FirstPeriod,
                  _period_from_locked_logic(PipelineFirstDay + PeriodStepDays), ts))}
        \cup {_write_csv_snapshot("Socorro",
                  _period_from_locked_logic(PipelineFirstDay + PeriodStepDays),
                  <<ExportRow(IntText(7), 2, 2, 4, 4)>>,
                  PipelineFirstDay + PeriodStepDays, TicksPerSecond)}

\* The raw directories: at most MaxFiles files, no two of one name.
RawDirs ==
    {d \in SUBSET RunSnapshots :
        /\ Cardinality(d) <= MaxFiles
        /\ \A f, g \in d : f.name = g.name => f = g}

RunsInit ==
    /\ raw_dir \in RawDirs
    /\ today = PipelineFirstDay + PeriodStepDays
    /\ clock = MaxClock
    /\ pc = "idle"
    /\ args = NoArgs
    /\ raw_files = <<>>
    /\ raw = <<>>
    /\ metrics = <<>>
    /\ exports_dir = NoExports
    /\ error = NoError
    /\ runs = 0
    /\ run_log = <<>>
    /\ sat = <<>>
    /\ now = <<>>
    /\ chain = <<>>
    /\ raw_in = <<>>
    /\ metrics_out = <<>>

MainSelectRerun == Main_Select(MaxReruns)

RunsNext ==
    \/ MainSelectRerun
    \/ MainLoad
    \/ MainCompute
    \/ WriteOutputsTimestamped
    \/ WriteOutputsLatestOpen
    \/ WriteOutputsLatest

SpecRuns == RunsInit /\ [][RunsNext]_vars

(***************************************************************************)
(* Claims about the period calculator, checked under SpecPeriod.           *)
(***************************************************************************)
\* 2024-03-16 (ordinal 738961) is a Saturday; every seventh day from it is one.
IsSaturday(d) == (d - 738961) % 7 = 0

\* C1: most_recent_saturday(d) is the latest Saturday on or before d: it is a
\* Saturday, it is not after d, it is at most 6 days before d, no Saturday lies
\* between it and d, and it is d itself exactly when d is a Saturday.
C1_MostRecentSaturday ==
    sat # <<>> =>
        LET d == sat[1]
            r == sat[2]
        IN  /\ IsSaturday(r)
            /\ r <= d
            /\ d - r <= 6
            /\ \A s \in (r + 1) .. d : ~IsSaturday(s)
            /\ (r = d) <=> IsSaturday(d)

\* most_recent_saturday was called on a Saturday and returned it (distance 0).
C1_Witness == sat # <<>> /\ IsSaturday(sat[1]) /\ sat[2] = sat[1]

PeriodInvariant(p) ==
    /\ IsSaturday(p.end)
    /\ p.end - p.start = 13
    /\ p.label = isoformat(p.start) \o "_to_" \o isoformat(p.end)

\* C2: the period current_biweekly_period returns, and every period reached from
\* it by last_biweekly_period, ends on a Saturday, spans 13 days from start to end
\* and is labelled "<start ISO>_to_<end ISO>"; for the reference date 2024-03-16
\* it is 2024-03-03 .. 2024-03-16, labelled "2024-03-03_to_2024-03-16".
C2_PeriodInvariant ==
    /\ \A i \in 1 .. Len(chain) : PeriodInvariant(chain[i])
    /\ (now # <<>> /\ date(now[1]) = 738961) =>
            chain[1] = [start |-> 738948, end |-> 738961,
                        label |-> "2024-03-03_to_2024-03-16"]

\* The chain of scenario A, walked back twice.
C2_Witness ==
    /\ Len(chain) >= 3
    /\ chain[1].label = "2024-03-03_to_2024-03-16"
    /\ chain[3].label = "2024-02-04_to_2024-02-17"

\* C3: each previous period ends the day before its successor starts, so the chain
\* tiles the calendar: every date from the earliest start to the latest end lies in
\* exactly one period of the chain.
C3_ZeroGapTiling ==
    /\ \A i \in 1 .. (Len(chain) - 1) : chain[i + 1].end = chain[i].start - 1
    /\ chain # <<>> =>
        \A d \in chain[Len(chain)].start .. chain[1].end :
            Cardinality({i \in 1 .. Len(chain) :
                            chain[i].start <= d /\ d <= chain[i].end}) = 1

\* A chain of three periods: two applications of last_biweekly_period.
C3_Witness == Len(chain) >= 3 /\ chain[3].end = chain[1].start - 15

\* C4 (as claimed): the period depends only on the instant `now` denotes: it is the
\* period of that instant's calendar date in America/Chicago, whatever zone the
\* datetime carries.
C4_PeriodOfChicagoDate ==
    chain # <<>> =>
        chain[1] = current_biweekly_period(
                       [day |-> ChicagoDate(Instant(now[1])), hour |-> 0, tz |-> "CT"])

(***************************************************************************)
(* Claims about safe_div and compute_metrics, checked under SpecMetrics.   *)
(***************************************************************************)
\* The rows compute_metrics returned, each with the raw row it came from.
Computed == IF metrics_out = <<>> THEN {} ELSE
    {<<raw_in[i], metrics_out[1][i]>> : i \in 1 .. Len(raw_in)}

\* q is n / d, stated without dividing: q * d = n.
IsQuotient(q, n, d) == ~isna(q) /\ FMul(q, d) = n

\* C5: safe_div gives 0.0 where the denominator is 0, whatever the numerator, and
\* n / d elsewhere, and always a number; so a row with category_cases_lp = 0 has
\* share_of_category_lp = 0.0 and expected_cases_if_maintained_share = 0.0.
C5_SafeDiv ==
    \A c \in Computed :
        LET r == c[1]
            m == c[2]
        IN  /\ r.category_cases = Num(0) => m.share_of_category = Num(0)
            /\ r.category_cases # Num(0) =>
                   IsQuotient(m.share_of_category, r.brand_cases, r.category_cases)
            /\ r.category_cases_lp = Num(0) =>
                   /\ m.share_of_category_lp = Num(0)
                   /\ m.expected_cases_if_maintained_share = Num(0)
            /\ r.category_cases_lp # Num(0) =>
                   IsQuotient(m.share_of_category_lp, r.brand_cases_lp, r.category_cases_lp)

\* Scenario C with volume everywhere else: a zero last-period category.
C5_Witness ==
    \E c \in Computed :
        /\ c[1].category_cases_lp = Num(0)
        /\ c[1].brand_cases_lp = Num(2)
        /\ c[1].category_cases = Num(3)
        /\ c[2].expected_cases_if_maintained_share = Num(0)

\* C6: true_up_cases >= 0, true_down_cases <= 0, they add up to
\* true_difference_cases, and at most one of them is not zero.
C6_SignSplit ==
    \A c \in Computed :
        LET m == c[2] IN
        /\ ~isna(m.true_up_cases) /\ ~isna(m.true_down_cases)
        /\ ~FLess(m.true_up_cases, Num(0))
        /\ ~FLess(Num(0), m.true_down_cases)
        /\ FAdd(m.true_up_cases, m.true_down_cases) = m.true_difference_cases
        /\ m.true_up_cases = Num(0) \/ m.true_down_cases = Num(0)

\* A row that lost share (true_down_cases < 0) and a computed table.
C6_Witness ==
    \E c \in Computed :
        /\ FLess(c[2].true_down_cases, Num(0))
        /\ c[2].true_up_cases = Num(0)

\* C7: true_difference_cases = share_gain_cases = brand_cases - category_cases *
\* safeDiv(brand_cases_lp, category_cases_lp), and category_effect_cases =
\* category_cases * safeDiv(brand_cases_lp, category_cases_lp) - brand_cases_lp.
\* With a zero last-period category the quotient is 0; elsewhere the equations are
\* stated multiplied through by category_cases_lp.  Scenario B gives 80, 40, 40, 0.
C7_TrueDifference ==
    \A c \in Computed :
        LET r == c[1]
            m == c[2]
            lp == r.category_cases_lp
        IN  /\ m.true_difference_cases = m.share_gain_cases
            /\ ~isna(m.true_difference_cases) /\ ~isna(m.category_effect_cases)
            /\ lp = Num(0) =>
                   /\ m.true_difference_cases = r.brand_cases
                   /\ m.category_effect_cases = FSub(Num(0), r.brand_cases_lp)
            /\ lp # Num(0) =>
                   /\ FMul(m.true_difference_cases, lp) =
                          FSub(FMul(r.brand_cases, lp),
                               FMul(r.category_cases, r.brand_cases_lp))
                   /\ FMul(m.category_effect_cases, lp) =
                          FSub(FMul(r.category_cases, r.brand_cases_lp),
                               FMul(r.brand_cases_lp, lp))
            /\ r = ScenarioB =>
                   /\ m.share_of_category = Frac(3, 10)
                   /\ m.share_of_category_lp = Frac(2, 10)
                   /\ m.expected_cases_if_maintained_share = Num(80)
                   /\ m.true_difference_cases = Num(40)
                   /\ m.true_up_cases = Num(40)
                   /\ m.true_down_cases = Num(0)

\* Scenario B, computed.
C7_Witness ==
    \E c \in Computed : c[1] = ScenarioB /\ c[2].true_difference_cases = Num(40)

\* The (account_id, brand, period_end) triple of a row, each component as text.
Triple(r) == <<astype_str(r.account_id), r.brand, r.period_end>>

\* C8 (as claimed): two rows of one output table whose triples differ in at least
\* one component have different unique_key strings.
C8_UniqueKeyInjective ==
    \A c1, c2 \in Computed :
        Triple(c1[2]) # Triple(c2[2]) => c1[2].unique_key # c2[2].unique_key

(***************************************************************************)
(* Claims about the pipeline, checked under Spec.                          *)
(***************************************************************************)
\* The tables a run has produced: the one in hand once computed, and the
\* artifacts written.
OutputTables ==
    (IF pc \in {"checked", "wrote_timestamped", "writing_latest", "done"}
     THEN {metrics} ELSE {})
        \cup {a.table : a \in exports_dir.timestamped}
        \cup {exports_dir.latest[i] : i \in 1 .. Len(exports_dir.latest)}

\* C9 (as claimed): in the metrics table of a run, in either selection mode
\* and for any snapshot files and rows, no two rows share a unique_key.
C9_UniqueKeyGloballyUnique ==
    \A t \in OutputTables :
        \A i, j \in 1 .. Len(t) : t[i].unique_key = t[j].unique_key => i = j

\* The brand a snapshot's name carries.
BrandOf(name) == split_segments(name)[2]

\* The selection step of a run in mode latest-per-brand: of every brand among
\* the candidates exactly one snapshot is selected, and every other candidate
\* of the brand is older, by modification time and by the capture time in its
\* name.
LatestSelected ==
    (pc # "selected" /\ pc' = "selected" /\ args'.mode = "latest-per-brand") =>
        LET candidates == glob(raw_dir, args'.period_end)
            chosen == {raw_files'[i] : i \in 1 .. Len(raw_files')}
        IN  /\ chosen \subseteq candidates
            /\ Len(raw_files') = Cardinality(chosen)
            /\ \A q \in candidates :
                  \E p \in chosen :
                      /\ BrandOf(p) = BrandOf(q)
                      /\ \A x \in chosen : BrandOf(x) = BrandOf(q) => x = p
                      /\ q # p => /\ st_mtime(raw_dir, q) < st_mtime(raw_dir, p)
                                  /\ PathLess(q, p)

\* The load step of such a run: the fact table's rows of a brand are the rows
\* of the brand's selected file, one for one and in order.
LatestLoaded ==
    (pc = "selected" /\ pc' = "loaded" /\ args.mode = "latest-per-brand") =>
        /\ \A k \in 1 .. Len(raw') :
              \E i \in 1 .. Len(raw_files) : BrandOf(raw_files[i]) = raw'[k].brand
        /\ \A i \in 1 .. Len(raw_files) :
              LET f == FileAt(raw_dir, raw_files[i])
                  of_brand == SelectSeq(raw', LAMBDA r : r.brand = BrandOf(f.name))
              IN  /\ Len(of_brand) = Len(f.content.rows)
                  /\ \A k \in 1 .. Len(of_brand) :
                        /\ of_brand[k].brand_cases = Num(f.content.rows[k].cases.int)
                        /\ of_brand[k].brand_cases_lp = Num(f.content.rows[k].cases_lp.int)
                        /\ of_brand[k].category_cases =
                               Num(f.content.rows[k].ms_category.int)
                        /\ of_brand[k].category_cases_lp =
                               Num(f.content.rows[k].ms_category_lp.int)

\* C10: in mode latest-per-brand every brand with a candidate snapshot for the
\* target period has exactly one snapshot selected, the most recent of the
\* brand's candidates, and the fact table holds that file's rows and no row of
\* an older file of the brand.
C10_LatestPerBrand == [][LatestSelected /\ LatestLoaded]_vars

\* A run in mode latest-per-brand has loaded the newer of two snapshots of one
\* brand and period, whose rows differ from the older one's.
C10_Witness ==
    /\ pc = "loaded"
    /\ args.mode = "latest-per-brand"
    /\ \E f, g \in raw_dir :
          /\ GlobMatches(f.name, args.period_end)
          /\ GlobMatches(g.name, args.period_end)
          /\ BrandOf(f.name) = BrandOf(g.name)
          /\ g.mtime < f.mtime
          /\ ~g.content.empty
          /\ g.content.rows # f.content.rows
          /\ \E i \in 1 .. Len(raw_files) : raw_files[i] = f.name
          /\ \A i \in 1 .. Len(raw_files) : raw_files[i] # g.name
          /\ \E k \in 1 .. Len(raw) : raw[k].brand = BrandOf(f.name)

(***************************************************************************)
(* Claims about runs of the transformer, checked under SpecRuns.           *)
(***************************************************************************)
\* The files of a directory whose names the pattern for a period end matches.
Matching(dir, period_end) == {f \in dir : GlobMatches(f.name, period_end)}

\* A run is past its selection step.
PastSelection ==
    pc \in {"selected", "loaded", "checked", "wrote_timestamped", "writing_latest", "done"}

\* A run that starts with no file matching its period end fails at once with
\* FileNotFoundError, with nothing loaded or computed and no artifact touched.
NoSnapshotsStep ==
    (runs' = runs + 1 /\ Matching(raw_dir, args'.period_end) = {}) =>
        /\ pc' = "failed"
        /\ error'.kind = "FileNotFoundError"
        /\ raw_files' = <<>>
        /\ raw' = <<>>
        /\ metrics' = <<>>
        /\ exports_dir' = exports_dir
        /\ run_log' = run_log

\* C11: when no snapshot file matches the requested period end the run fails
\* with the no-snapshots-found error before anything is loaded, computes no
\* metrics and leaves both artifacts as they were; no run goes past selection,
\* let alone completes, without a matching file.
C11_NoSnapshotsFound ==
    /\ [](PastSelection => Matching(raw_dir, args.period_end) # {})
    /\ [][NoSnapshotsStep]_vars

\* A run for a period end no file matches has failed, in a directory that holds
\* snapshots of another period, after an earlier run wrote its artifacts.
C11_Witness ==
    /\ pc = "failed"
    /\ error.kind = "FileNotFoundError"
    /\ raw_dir # {}
    /\ Matching(raw_dir, args.period_end) = {}
    /\ Len(run_log) = 1
    /\ exports_dir.latest = <<run_log[1].metrics>>

\* The period segment of a name (the third) holds no "_to_", and is, or ends
\* in, the period end.
LacksSeparator(name, period_end) ==
    /\ Len(name) >= 3
    /\ Len(split_to(name[3])) < 2
    /\ name[3][Len(name[3])] = period_end

\* A file that, taken alone, load_raw_snapshots accepts.
Sound(f) ==
    /\ ~f.content.empty
    /\ LoadFrame(f).error = NoError
    /\ Len(split_to(f.name[3])) >= 2

\* C12 (as claimed): a run for a period end over a directory holding a snapshot
\* of that period whose period segment lacks "_to_", every other file being
\* sound, fails with the period-label error, and the error names that file.
C12_PeriodLabelErrorNamesFile ==
    \A f \in raw_dir :
        (/\ pc \in {"failed", "done"}
         /\ LacksSeparator(f.name, args.period_end)
         /\ \A g \in raw_dir \ {f} : Sound(g))
        => /\ pc = "failed"
           /\ error.kind = "ValueError: rows are missing period_end"
           /\ error.file = PathName(f.name)

\* The required columns a snapshot lacks once its headers are renamed (a file
\* without a header lacks them all).
Lacking(f) ==
    {"account_id", "brand_cases", "category_cases", "brand_cases_lp", "category_cases_lp"}
        \ {rename_map(c) : c \in f.content.header}

SelectedFile(i) == FileAt(raw_dir, raw_files[i])

\* The load step over a selection with a snapshot that lacks a required column:
\* it fails and returns no table; when that snapshot is the first the loop
\* stumbles on, and has a header, the error is a ValueError naming the file and
\* the missing columns (the account column alone when that is missing).
SchemaStep ==
    (pc = "selected" /\ pc' # "selected") =>
        \A i \in 1 .. Len(raw_files) :
            LET f == SelectedFile(i) IN
            Lacking(f) # {} =>
                /\ pc' = "failed"
                /\ raw' = <<>>
                /\ (/\ ~f.content.empty
                    /\ \A j \in 1 .. (i - 1) : Lacking(SelectedFile(j)) = {})
                   => /\ error'.kind \in
                            {"ValueError: missing an account identifier column",
                             "ValueError: missing required metric columns"}
                      /\ error'.file = PathName(f.name)
                      /\ error'.missing =
                             IF "account_id" \in Lacking(f) THEN {"account_id"}
                             ELSE Lacking(f)

ForPeriodEnd(name, period_end) ==
    /\ Len(name) >= 3
    /\ name[3][Len(name[3])] = period_end

\* The brands the rows of a table carry.
BrandsIn(table) == {table[i].brand : i \in 1 .. Len(table)}

\* C14 (as claimed): a run that completes has in its metrics table the brand of
\* every snapshot the raw directory holds for the requested period; a snapshot
\* whose name deviates from the expected shape is never silently left out.
C14_NoPartialSuccess ==
    pc = "done" =>
        \A f \in raw_dir :
            ForPeriodEnd(f.name, args.period_end) =>
                SegmentText(f.name[2]) \in BrandsIn(metrics)

\* The table carries the four columns of the output contract.
MeetsContract(table) ==
    {"unique_key", "brand", "period_end", "true_difference_cases"} \subseteq Columns(table)

\* The step that computes the metrics checks them: the run goes on exactly when
\* the table meets the contract and fails with RuntimeError otherwise, and the
\* step writes nothing.
ContractStep ==
    (pc = "loaded" /\ pc' # "loaded") =>
        /\ exports_dir' = exports_dir
        /\ IF MeetsContract(metrics')
           THEN pc' = "checked"
           ELSE /\ pc' = "failed"
                /\ error'.kind = "RuntimeError: metrics output missing required columns"

\* Whatever changes the exports directory is a step of write_outputs on a table
\* that was checked.
WriterStep ==
    exports_dir' # exports_dir =>
        /\ pc \in {"checked", "wrote_timestamped", "writing_latest"}
        /\ metrics' = metrics
        /\ MeetsContract(metrics)

\* C15: the output-contract check precedes the writer: write_outputs runs only
\* on a table verified to carry unique_key, brand, period_end and
\* true_difference_cases, and a table lacking one fails the run with the
\* output-contract error before anything is written.
C15_ContractBeforeWriter ==
    /\ [](pc \in {"checked", "wrote_timestamped", "writing_latest", "done"}
            => MeetsContract(metrics))
    /\ [][ContractStep /\ WriterStep]_vars

\* The writer has begun on a checked table.
C15_Witness ==
    /\ pc = "wrote_timestamped"
    /\ metrics # <<>>
    /\ MeetsContract(metrics)
    /\ \E a \in exports_dir.timestamped : a.table = metrics

\* C16 (as claimed): whenever metrics_truth_latest.csv is read it holds a whole
\* table, the previous one or the new one: the table of some timestamped
\* artifact, each of which is written before the latest artifact is.
C16_LatestNeverPartial ==
    \A i \in 1 .. Len(exports_dir.latest) :
        exports_dir.latest[i] \in {a.table : a \in exports_dir.timestamped}

\* The name write_outputs gives the timestamped artifact of a table.
ArtifactName(period_end, table) ==
    "metrics_truth_" \o period_end \o "_" \o ToString(table[1].run_timestamp) \o ".csv"

\* Outside the writing of the latest artifact, it holds the table of the last
\* run that completed (it does not exist before the first), and every completed
\* run has its timestamped artifact, with the same table.
LatestIsLastSuccess ==
    /\ pc # "writing_latest" =>
           exports_dir.latest =
               IF run_log = <<>> THEN <<>> ELSE <<run_log[Len(run_log)].metrics>>
    /\ \A k \in 1 .. Len(run_log) :
           \E a \in exports_dir.timestamped :
               /\ a.path = ArtifactName(run_log[k].args.period_end, run_log[k].metrics)
               /\ a.table = run_log[k].metrics

\* A step that fails a run leaves the exports directory as it was.
FailureKeepsExports ==
    (pc # "failed" /\ pc' = "failed") => exports_dir' = exports_dir

\* C17: after any sequence of runs the latest artifact holds exactly the metrics
\* table of the most recent successful run; a successful run writes the
\* timestamped artifact metrics_truth_<period_end>_<run_timestamp> and the
\* latest artifact with the same contents, a failing run leaves the latest
\* artifact unchanged.
C17_LatestReflectsLastSuccess ==
    /\ []LatestIsLastSuccess
    /\ [][FailureKeepsExports]_vars

\* Two runs for different period ends have completed; the latest artifact holds
\* the second one's table, and both timestamped artifacts exist.
C17_Witness ==
    /\ pc = "done"
    /\ Len(run_log) = 2
    /\ run_log[1].args.period_end # run_log[2].args.period_end
    /\ exports_dir.latest = <<run_log[2].metrics>>
    /\ run_log[1].metrics # run_log[2].metrics
    /\ Cardinality(exports_dir.timestamped) = 2

\* A table without its run_timestamp column.
WithoutRunTimestamp(table) ==
    [k \in 1 .. Len(table) |->
        [c \in DOMAIN table[k] \ {"run_timestamp"} |-> table[k][c]]]

\* C18: two runs over the same snapshots with the same period end and mode
\* select the same files and produce the same rows, in the same order and equal
\* in every column but run_timestamp.
C18_Idempotent ==
    \A i, j \in 1 .. Len(run_log) :
        run_log[i].args = run_log[j].args =>
            /\ run_log[i].raw_files = run_log[j].raw_files
            /\ WithoutRunTimestamp(run_log[i].metrics) =
                   WithoutRunTimestamp(run_log[j].metrics)

\* A run over two snapshots of one brand was repeated with the same arguments;
\* the two tables differ, in run_timestamp alone.
C18_Witness ==
    /\ Len(run_log) = 2
    /\ run_log[1].args = run_log[2].args
    /\ Cardinality(Matching(raw_dir, args.period_end)) = 2
    /\ run_log[1].metrics # run_log[2].metrics
    /\ WithoutRunTimestamp(run_log[1].metrics) = WithoutRunTimestamp(run_log[2].metrics)

\* C19 (as claimed): every row of the fact table load_raw_snapshots returned,
\* and so every metrics row, has an account_id that is not blank or missing.
C19_AccountIdNonEmpty ==
    /\ \A k \in 1 .. Len(raw) : raw[k].account_id # NaNCell
    /\ \A k \in 1 .. Len(metrics) : metrics[k].account_id # NaNCell

\* The rows of the selected snapshots as the files hold them, in the order of
\* the selection.
RECURSIVE ExportRowsOf(_)
ExportRowsOf(paths) ==
    IF paths = <<>> THEN <<>>
    ELSE FileAt(raw_dir, Head(paths)).content.rows \o ExportRowsOf(Tail(paths))

\* What a cell of a count column stands for: its number, or 0.0 when it is
\* blank or is not a number.
Coerced(cell) == IF cell.kind = "int" THEN Num(cell.int) ELSE Num(0)

\* The loaded table has a row for every row of the selected files, and each of
\* its four count columns holds the number of the file's cell, or 0.0.
CountsAreNumbers ==
    pc \in {"loaded", "checked", "wrote_timestamped", "writing_latest", "done"} =>
        LET cells == ExportRowsOf(raw_files) IN
        /\ Len(raw) = Len(cells)
        /\ \A k \in 1 .. Len(raw) :
              /\ ~isna(raw[k].brand_cases)
              /\ ~isna(raw[k].category_cases)
              /\ ~isna(raw[k].brand_cases_lp)
              /\ ~isna(raw[k].category_cases_lp)
              /\ raw[k].brand_cases = Coerced(cells[k].cases)
              /\ raw[k].category_cases = Coerced(cells[k].ms_category)
              /\ raw[k].brand_cases_lp = Coerced(cells[k].cases_lp)
              /\ raw[k].category_cases_lp = Coerced(cells[k].ms_category_lp)

\* A load over snapshots that have their columns and their period end succeeds,
\* whatever their count cells hold.
CellsNeverAbort ==
    (/\ pc = "selected"
     /\ pc' # "selected"
     /\ \A i \in 1 .. Len(raw_files) :
           /\ Lacking(SelectedFile(i)) = {}
           /\ Len(split_to(raw_files[i][3])) >= 2)
    => pc' = "loaded"

\* C20: in every table load_raw_snapshots returns, brand_cases, category_cases,
\* brand_cases_lp and category_cases_lp are numbers in every row: a blank or
\* unparseable cell is 0.0, a parseable cell keeps its value, and no such cell
\* aborts the run.
C20_NumericCoercion ==
    /\ []CountsAreNumbers
    /\ [][CellsNeverAbort]_vars

\* A snapshot with text in one count cell and a blank in another was loaded:
\* both became 0.0 and the numbers beside them were kept.
C20_Witness ==
    /\ pc = "loaded"
    /\ \E k \in 1 .. Len(raw) :
          LET cell == ExportRowsOf(raw_files)[k] IN
          /\ cell.cases.kind = "text"
          /\ cell.ms_category.kind = "blank"
          /\ raw[k].brand_cases = Num(0)
          /\ raw[k].category_cases = Num(0)
          /\ raw[k].brand_cases_lp = Num(cell.cases_lp.int)
          /\ raw[k].brand_cases_lp # Num(0)

\* Every row of the fact table of a completed run carries the period end the
\* run was started for.
RowsOfTargetPeriod ==
    pc = "done" =>
        /\ \A k \in 1 .. Len(raw) : raw[k].period_end = args.period_end
        /\ \A k \in 1 .. Len(metrics) : metrics[k].period_end = args.period_end

\* A name of the shape establishmentdata__<brand>__<start>_to_<end>__run_<ts>.
WellFormedName(name) ==
    /\ Len(name) = 4
    /\ name[1] = <<"establishmentdata">>
    /\ Len(name[2]) = 1
    /\ Len(name[3]) = 2
    /\ Len(name[4]) = 1
    /\ name[4][1] \in RunParts

\* Every well-formed snapshot whose label ends in the target was a candidate:
\* in mode all it is selected, in mode latest-per-brand its brand has a
\* selected file.
WellFormedAreCandidates ==
    PastSelection =>
        \A f \in raw_dir :
            (WellFormedName(f.name) /\ f.name[3][2] = args.period_end) =>
                /\ \E i \in 1 .. Len(raw_files) : BrandOf(raw_files[i]) = BrandOf(f.name)
                /\ args.mode = "all" => \E i \in 1 .. Len(raw_files) : raw_files[i] = f.name

\* C21 (as claimed): in every successful run for target period end T every row
\* of the fact table has period_end = T, and every well-formed snapshot of the
\* raw directory whose period label ends in T is a selection candidate.
C21_PeriodEndFilter == RowsOfTargetPeriod /\ WellFormedAreCandidates

=============================================================================
